---------------------------- MODULE Spec2Model ----------------------------
(***************************************************************************)
(* A model of tests/test_storage.py: the command line dispatcher (_cli),   *)
(* the storage smoke suite (SmokeStorageTest and its checks, run by the    *)
(* unittest runner) and the backend provisioning of the test classes       *)
(* (setUpClass / tearDownClass).                                           *)
(*                                                                         *)
(* Three specifications share the variables:                               *)
(*   SpecCli    the dispatcher, from sys.argv to unittest.main             *)
(*   Spec       the checks of one test class against one backend account   *)
(*   SpecClass  the class fixtures: provision, run, tear down              *)
(* The storage driver, the cloud resource API and the container runtime    *)
(* are collaborators outside the repository: they are the environment,     *)
(* which answers each call with one of a small set of replies.             *)
(***************************************************************************)
EXTENDS Integers, Sequences, FiniteSets, TLC

VARIABLES
    \* ---- the dispatcher
    pc,          \* position of the process
    argv,        \* sys.argv[1:], as [mode, given]
    parser,      \* the sub-commands built: test_name -> arg_name -> kwargs
    args,        \* the parsed namespace
    Config,      \* the Config class attributes, per Config class
    cls,         \* the test class handed to the runner
    \* ---- the suite
    env_large,   \* whether LARGE_FILE_SIZE_MB is set
    store,       \* the backend account: container name -> blob name -> bytes
    test,        \* the check being run
    step,        \* the position inside setUp / the check / tearDown
    loc,         \* the locals of the check
    driver,      \* self.driver: the kwargs it was built with, or NoDriver
    req,         \* the last request sent to the driver
    deviated,    \* whether a reply of the driver left its contract
    did,         \* what the check has done so far (upload, fetch, compare)
    outcome,     \* how the last check ended
    reason,      \* the skip reason of the last check
    \* ---- the class fixtures
    cpc,         \* position in setUpClass / the run / tearDownClass
    groups,      \* resource groups of the subscription: name -> provisioning state
    rgname,      \* cls.resource_group_name
    snapshot,    \* tearDownClass: the matching groups listed in this round
    visited,     \* tearDownClass: how many of them the for loop has visited
    requested,   \* groups whose deletion was requested in this round
    lastDelete,  \* the last delete request: [name, state, raised]
    emulator     \* the emulator container: "none", "running", "killed"

cliVars == <<pc, argv, parser, args, Config, cls>>
suiteVars == <<env_large, store, test, step, loc, driver, req, deviated,
               did, outcome, reason>>
classVars == <<cpc, groups, rgname, snapshot, visited, requested, lastDelete,
               emulator>>
vars == <<cliVars, suiteVars, classVars>>

---------------------------------------------------------------------------
(* Python values. A value carries its type: indexing a bytes object gives  *)
(* an int, slicing gives bytes, and the two never compare equal.           *)

None == [t |-> "NoneType", v |-> 0]
PyStr(s) == [t |-> "str", v |-> s]
PyInt(i) == [t |-> "int", v |-> i]
PyBool(b) == [t |-> "bool", v |-> b]
PyBytes(b) == [t |-> "bytes", v |-> b]

\* a == b of Python, for the values above
PyEq(a, b) == a.t = b.t /\ a.v = b.v

\* value is None
IsNone(x) == x.t = "NoneType"

---------------------------------------------------------------------------
(* Strings are sequences of characters.                                    *)

\* s[i:j] of Python, 0 <= i, j (a slice is clamped to the length)
Slice(s, i, j) ==
    LET hi == IF j < Len(s) THEN j ELSE Len(s)
    IN  IF i >= hi THEN <<>> ELSE [k \in 1..(hi - i) |-> s[i + k]]

\* s[::-1]
Reverse(s) == [k \in 1..Len(s) |-> s[Len(s) + 1 - k]]

\* s.startswith(p)
StartsWith(s, p) == Len(p) <= Len(s) /\ Slice(s, 0, Len(p)) = p

\* s.lower()
Lower(s) ==
    LET upper == <<"A","B","C","D","E","F","G","H","I","J","K","L","M",
                   "N","O","P","Q","R","S","T","U","V","W","X","Y","Z">>
        lower == <<"a","b","c","d","e","f","g","h","i","j","k","l","m",
                   "n","o","p","q","r","s","t","u","v","w","x","y","z">>
        low(c) == IF \E k \in 1..26 : upper[k] = c
                  THEN lower[CHOOSE k \in 1..26 : upper[k] = c]
                  ELSE c
    IN  [k \in 1..Len(s) |-> low(s[k])]

\* s.replace(old, new): every non-overlapping occurrence, left to right
RECURSIVE Replace(_, _, _)
Replace(s, old, new) ==
    IF Len(old) = 0 \/ Len(s) = 0 THEN s
    ELSE IF StartsWith(s, old)
         THEN new \o Replace(Slice(s, Len(old), Len(s)), old, new)
         ELSE <<s[1]>> \o Replace(Slice(s, 1, Len(s)), old, new)

\* The spelling of the identifiers the code inspects
Chars(n) ==
    CASE n = "SmokeStorageTest" ->
           <<"S","m","o","k","e","S","t","o","r","a","g","e","T","e","s","t">>
      [] n = "AzureStorageTest" ->
           <<"A","z","u","r","e","S","t","o","r","a","g","e","T","e","s","t">>
      [] n = "AzuriteStorageTest" ->
           <<"A","z","u","r","i","t","e","S","t","o","r","a","g","e","T","e","s","t">>
      [] n = "AzuriteV3StorageTest" ->
           <<"A","z","u","r","i","t","e","V","3","S","t","o","r","a","g","e","T","e","s","t">>
      [] n = "IotedgeStorageTest" ->
           <<"I","o","t","e","d","g","e","S","t","o","r","a","g","e","T","e","s","t">>
      [] n = "StorageTest" -> <<"S","t","o","r","a","g","e","T","e","s","t">>
      [] n = "__module__" -> <<"_","_","m","o","d","u","l","e","_","_">>
      [] n = "__doc__" -> <<"_","_","d","o","c","_","_">>
      [] n = "provider" -> <<"p","r","o","v","i","d","e","r">>
      [] n = "account" -> <<"a","c","c","o","u","n","t">>
      [] n = "secret" -> <<"s","e","c","r","e","t">>
      [] n = "username" -> <<"u","s","e","r","n","a","m","e">>
      [] n = "password" -> <<"p","a","s","s","w","o","r","d">>
      [] n = "tenant" -> <<"t","e","n","a","n","t">>
      [] n = "subscription" -> <<"s","u","b","s","c","r","i","p","t","i","o","n">>
      [] n = "location" -> <<"l","o","c","a","t","i","o","n">>
      [] n = "template_file" -> <<"t","e","m","p","l","a","t","e","_","f","i","l","e">>
      [] n = "kind" -> <<"k","i","n","d">>
      [] n = "port" -> <<"p","o","r","t">>
      [] n = "version" -> <<"v","e","r","s","i","o","n">>
      [] n = "mode" -> <<"m","o","d","e">>
      [] n = "bogus" -> <<"b","o","g","u","s">>
      [] n = "host" -> <<"h","o","s","t">>
      [] n = "secure" -> <<"s","e","c","u","r","e">>
      [] n = "testblob" -> <<"t","e","s","t","b","l","o","b">>
      [] n = "bolbtset" -> <<"b","o","l","b","t","s","e","t">>
      [] n = "testblob-range" ->
           <<"t","e","s","t","b","l","o","b","-","r","a","n","g","e">>
      [] n = "cdn" -> <<"c","d","n">>
      [] n = "eastus" -> <<"e","a","s","t","u","s">>
      [] n = "StorageV2" -> <<"S","t","o","r","a","g","e","V","2">>
      [] n = "latest" -> <<"l","a","t","e","s","t">>
      [] n = "tests/test_storage.py" ->
           <<"t","e","s","t","s","/","t","e","s","t","_","s","t","o","r","a","g","e",
             ".","p","y">>
      [] n = ".arm.json" -> <<".","a","r","m",".","j","s","o","n">>
      [] n = "__main__" -> <<"_","_","m","a","i","n","_","_">>
      [] n = "azure_blobs" -> <<"a","z","u","r","e","_","b","l","o","b","s">>
      [] n = "devstoreaccount1" -> <<"d","e","v","s","t","o","r","e","a","c","c","o","u","n","t","1">>
      [] n = "localhost" -> <<"l","o","c","a","l","h","o","s","t">>
      [] n = "test" -> <<"t","e","s","t">>
      [] n = "libcloudtest" -> <<"l","i","b","c","l","o","u","d","t","e","s","t">>
      [] n = "Account" -> <<"A","c","c","o","u","n","t">>
      [] n = "Secret" -> <<"S","e","c","r","e","t">>
      [] n = "Host" -> <<"H","o","s","t">>
      [] n = "AzuriteSecret" ->
           <<"E","b","y","8","v","d","M","0","2","x","N","O","c","q","F","l","q","U",
             "w","J","P","L","l","m","E","t","l","C","D","X","J","1","O","U","z","F",
             "T","5","0","u","S","R","Z","6","I","F","s","u","F","q","2","U","V","E",
             "r","C","z","4","I","6","t","q","/","K","1","S","Z","F","P","T","O","t",
             "r","/","K","B","H","B","e","k","s","o","G","M","G","w","=","=">>

\* The elements of a finite set of strings or integers as a sequence, in an
\* order fixed by the set (a listing of names)
RECURSIVE SetToSeq(_)
SetToSeq(S) ==
    IF S = {} THEN <<>>
    ELSE LET x == CHOOSE y \in S : TRUE
         IN  <<x>> \o SetToSeq(S \ {x})

---------------------------------------------------------------------------
(* The test classes and their Config classes.                              *)

\* inspect.getmembers(module, inspect.isclass): the classes of the module
Classes ==
    {"AzureStorageTest", "AzuriteStorageTest", "AzuriteV3StorageTest",
     "IotedgeStorageTest", "SmokeStorageTest"}

\* The class whose body defines the Config a test class sees: AzuriteV3StorageTest
\* defines none and inherits AzuriteStorageTest's
ConfigClass(c) == IF c = "AzuriteV3StorageTest" THEN "AzuriteStorageTest" ELSE c

\* os.path.splitext(path)[0]: the path without the extension of its last
\* component (a leading dot of the component starts no extension)
SplitExtRoot(s) ==
    LET LastIndex(c) ==
            LET at == {k \in 1..Len(s) : s[k] = c}
            IN  IF at = {} THEN 0 ELSE CHOOSE k \in at : \A j \in at : j <= k
        dot == LastIndex(".")
        sep == LastIndex("/")
    IN  IF dot > sep + 1 THEN Slice(s, 0, dot - 1) ELSE s

\* vars(Config) as each class body leaves it (the attributes Python adds to
\* every class are those starting with an underscore)
ClassDunder ==
    [n \in {"__module__", "__doc__"} |->
        IF n = "__module__" THEN PyStr(Chars("__main__")) ELSE None]

SmokeConfig ==
    [n \in {"provider", "account", "secret"} |-> None]

AzureConfig ==
    [n \in {"username", "password", "tenant", "subscription", "location",
            "template_file", "kind"} |->
        CASE n = "location" -> PyStr(Chars("eastus"))
          [] n = "template_file" ->
               PyStr(SplitExtRoot(Chars("tests/test_storage.py")) \o Chars(".arm.json"))
          [] n = "kind" -> PyStr(Chars("StorageV2"))
          [] OTHER -> None]

AzuritePort == 10000
IotedgePort == 11002

AzuriteConfig ==
    [n \in {"port", "version"} |->
        IF n = "port" THEN PyInt(AzuritePort) ELSE PyStr(Chars("latest"))]

IotedgeConfig ==
    [n \in {"port", "version"} |->
        IF n = "port" THEN PyInt(IotedgePort) ELSE PyStr(Chars("latest"))]

ClassBody(c) ==
    CASE c = "SmokeStorageTest" -> SmokeConfig
      [] c = "AzureStorageTest" -> AzureConfig
      [] c = "AzuriteStorageTest" -> AzuriteConfig
      [] c = "IotedgeStorageTest" -> IotedgeConfig

\* f with the mappings of g added, g winning
Merge(f, g) ==
    [n \in DOMAIN f \cup DOMAIN g |-> IF n \in DOMAIN g THEN g[n] ELSE f[n]]

\* the Config classes of the module, each with its namespace
InitialConfig ==
    [c \in {ConfigClass(k) : k \in Classes} |-> Merge(ClassDunder, ClassBody(c))]

\* getattr(Config, name, None)
GetAttr(cfg, name) == IF name \in DOMAIN cfg THEN cfg[name] ELSE None

---------------------------------------------------------------------------
(* The dispatcher: _cli(module_name, strip_suffix).                        *)

\* class_name.replace(strip_suffix, "").lower()
TestName(c) == Lower(Replace(Chars(c), Chars("StorageTest"), <<>>))

\* testcases: test name -> test class (a dict: a later class of the same
\* name replaces an earlier one)
Testcases ==
    LET names == {TestName(c) : c \in Classes}
    IN  [n \in names |-> CHOOSE c \in Classes : TestName(c) = n]

\* not arg_name.startswith("_")
IsPublic(name) == ~StartsWith(Chars(name), <<"_">>)

\* ArgKwargs without the type of the default
ArgKwargsUntyped(arg_value) ==
    IF IsNone(arg_value)
    THEN [required |-> TRUE, type |-> "none", default |-> None]
    ELSE [required |-> FALSE, type |-> "none", default |-> arg_value]

\* kwargs of test_parser.add_argument for one Config attribute, with
\* argparse's own defaults for the keys the code leaves out (no type: the
\* string is kept; no default: None)
ArgKwargs(arg_value) ==
    IF IsNone(arg_value)
    THEN [required |-> TRUE, type |-> "none", default |-> None]
    ELSE [required |-> FALSE, type |-> arg_value.t, default |-> arg_value]

\* the sub-parser of one test class: its flags, from vars(test_class.Config)
TestParser(cfg) ==
    [a \in {n \in DOMAIN cfg : IsPublic(n)} |-> ArgKwargs(cfg[a])]

\* the parser with one sub-command per entry of testcases
BuildParser(config) ==
    [n \in DOMAIN Testcases |-> TestParser(config[ConfigClass(Testcases[n])])]

\* int(token): an optional sign and decimal digits, anything else a ValueError
Digits == <<"0", "1", "2", "3", "4", "5", "6", "7", "8", "9">>
RECURSIVE DecimalValue(_)
DecimalValue(s) ==
    IF Len(s) = 0 THEN 0
    ELSE 10 * DecimalValue(Slice(s, 0, Len(s) - 1))
         + (CHOOSE k \in 1..10 : Digits[k] = s[Len(s)]) - 1
ParseInt(s) ==
    LET IsDecimal(d) ==
            Len(d) > 0 /\ \A k \in 1..Len(d) : \E j \in 1..10 : Digits[j] = d[k]
    IN  IF IsDecimal(s) THEN PyInt(DecimalValue(s))
        ELSE IF Len(s) > 1 /\ s[1] = "-" /\ IsDecimal(Slice(s, 1, Len(s)))
             THEN PyInt(0 - DecimalValue(Slice(s, 1, Len(s))))
        ELSE IF Len(s) > 1 /\ s[1] = "+" /\ IsDecimal(Slice(s, 1, Len(s)))
             THEN PyInt(DecimalValue(Slice(s, 1, Len(s))))
        ELSE [t |-> "ValueError", v |-> 0]

\* argparse's conversion of a command line string: type(string), the string
\* itself when add_argument was given no type
Convert(kwargs, token) ==
    IF kwargs.type = "int" THEN ParseInt(token) ELSE PyStr(token)

\* the value argparse stores for a flag
FlagValue(kwargs, given, name) ==
    IF name \in DOMAIN given THEN Convert(kwargs, given[name]) ELSE kwargs.default

NoMode == <<>>
ParseError == [error |-> TRUE]

\* parser.parse_args(): the namespace, or ParseError where argparse exits
ParseArgs(p, av) ==
    IF av.mode = NoMode
    THEN IF DOMAIN av.given = {} THEN [mode |-> None] ELSE ParseError
    ELSE IF av.mode \notin DOMAIN p THEN ParseError
    ELSE LET flags == p[av.mode]
         IN  IF \/ \E g \in DOMAIN av.given : g \notin DOMAIN flags
                \/ \E f \in DOMAIN flags :
                      flags[f].required /\ f \notin DOMAIN av.given
                \/ \E f \in DOMAIN flags \cap DOMAIN av.given :
                      Convert(flags[f], av.given[f]).t = "ValueError"
             THEN ParseError
             ELSE [n \in DOMAIN flags \cup {"mode"} |->
                     IF n = "mode" THEN PyStr(av.mode)
                     ELSE FlagValue(flags[n], av.given, n)]

\* lines 456-458: every parsed argument but the sub-command is set on the
\* chosen class's Config
ApplyArgs(cfg, ns) ==
    Merge(cfg, [n \in {m \in DOMAIN ns : IsPublic(m) /\ m # "mode"} |-> ns[n]])

\* ---- the command lines tried
Token80 == <<"8", "0">>
TokenX == <<"x">>

\* a sub-command of the parser or another word, then any of its flags and an
\* unknown one, each with a token
Argvs ==
    LET PublicFields(c) ==
            {n \in DOMAIN InitialConfig[ConfigClass(c)] : IsPublic(n)}
        PartialFns(S, T) == UNION {[D -> T] : D \in SUBSET S}
    IN  UNION {{[mode |-> TestName(c), given |-> g] :
                  g \in PartialFns(PublicFields(c) \cup {"bogus"},
                                   {Token80, TokenX})} :
               c \in Classes} \cup
        {[mode |-> <<"n", "o">>, given |-> <<>>],
         [mode |-> NoMode, given |-> <<>>],
         [mode |-> NoMode, given |-> [n \in {"port"} |-> Token80]]}

---------------------------------------------------------------------------
(* The values of the variables a specification leaves alone.               *)

NoDriver == [built |-> FALSE, provider |-> None, kwargs |-> <<>>]
NoReq ==
    [op |-> "none", start |-> [t |-> "noarg", v |-> 0],
     end |-> [t |-> "noarg", v |-> 0], prefix |-> <<>>]
NoObj == [name |-> <<>>, size |-> 0, container |-> <<>>]
NoLoc ==
    [container_name |-> <<>>, container |-> <<>>, blob_name |-> <<>>,
     content |-> <<>>, obj |-> NoObj, listed |-> <<>>, idx |-> 0,
     expected |-> None, response |-> <<>>]
NoReason == [fmt |-> "none", arg |-> "none"]
NoDelete == [name |-> <<>>, state |-> "none", raised |-> FALSE]

CliIdle ==
    /\ pc = "idle"
    /\ argv = [mode |-> NoMode, given |-> <<>>]
    /\ parser = <<>>
    /\ args = <<>>

SuiteIdle ==
    /\ env_large = FALSE
    /\ store = <<>>
    /\ test = "none"
    /\ step = "idle"
    /\ loc = NoLoc
    /\ driver = NoDriver
    /\ req = NoReq
    /\ deviated = FALSE
    /\ did = {}
    /\ outcome = "none"
    /\ reason = NoReason

ClassIdle ==
    /\ cpc = "idle"
    /\ groups = <<>>
    /\ rgname = <<>>
    /\ snapshot = <<>>
    /\ visited = 0
    /\ requested = {}
    /\ lastDelete = NoDelete
    /\ emulator = "none"

---------------------------------------------------------------------------
(* The dispatcher's steps.                                                 *)

\* lines 429-451: the parser and one sub-parser per test class
CliBuild ==
    /\ pc = "cli"
    /\ parser' = BuildParser(Config)
    /\ pc' = "built"
    /\ UNCHANGED <<argv, args, Config, cls, suiteVars, classVars>>

\* line 453: parse_args, which exits the process on a bad command line
CliParse ==
    /\ pc = "built"
    /\ args' = ParseArgs(parser, argv)
    /\ pc' = IF args' = ParseError THEN "exit" ELSE "parsed"
    /\ UNCHANGED <<argv, parser, Config, cls, suiteVars, classVars>>

\* lines 455-458: look the test class up and set its Config (a KeyError when
\* no sub-command was given)
CliApply ==
    /\ pc = "parsed"
    /\ IF IsNone(args["mode"])
       THEN /\ pc' = "keyerror"
            /\ UNCHANGED <<Config, cls>>
       ELSE LET testcase == Testcases[args["mode"].v]
            IN  /\ cls' = testcase
                /\ Config' = [Config EXCEPT ![ConfigClass(testcase)] =
                                 ApplyArgs(@, args)]
                /\ pc' = "applied"
    /\ UNCHANGED <<argv, parser, args, suiteVars, classVars>>

\* line 460: hand the class to the unittest runner
CliMain ==
    /\ pc = "applied"
    /\ pc' = "main"
    /\ UNCHANGED <<argv, parser, args, Config, cls, suiteVars, classVars>>

InitCli ==
    /\ pc = "cli"
    /\ argv \in Argvs
    /\ parser = <<>>
    /\ args = <<>>
    /\ Config = InitialConfig
    /\ cls = "none"
    /\ SuiteIdle
    /\ ClassIdle

NextCli == CliBuild \/ CliParse \/ CliApply \/ CliMain

SpecCli == InitCli /\ [][NextCli]_vars

---------------------------------------------------------------------------
(* Names and payloads of the suite.                                        *)

max_length == 63

\* _random_string(length): the draws tried, one per character of a sample of
\* the alphabet
RandomAlphabet == {"a", "7"}
RandomStrings(length) == {[k \in 1..length |-> c] : c \in RandomAlphabet}

\* re.sub("[^a-z0-9-]", "-", name)
SubInvalid(s) ==
    [k \in 1..Len(s) |->
        IF s[k] \in {"a","b","c","d","e","f","g","h","i","j","k","l","m",
                     "n","o","p","q","r","s","t","u","v","w","x","y","z",
                     "0","1","2","3","4","5","6","7","8","9","-"}
        THEN s[k] ELSE "-"]

\* re.sub("-+", "-", name)
RECURSIVE CollapseDashes(_)
CollapseDashes(s) ==
    IF Len(s) < 2 THEN s
    ELSE IF s[1] = "-" /\ s[2] = "-" THEN CollapseDashes(Tail(s))
    ELSE <<s[1]>> \o CollapseDashes(Tail(s))

\* _random_container_name(prefix), for one draw of the random suffix
RandomContainerName(prefix, suffix) ==
    Lower(Slice(CollapseDashes(SubInvalid(prefix \o suffix)), 0, max_length))

ContainerNames ==
    {RandomContainerName(Chars("test"), x) : x \in RandomStrings(max_length)}

\* a name the code never generates, which a driver may answer with
OtherName == <<"o", "t", "h", "e", "r">>

\* os.urandom(size): the byte strings tried
MaxByte == 1
Payloads(size) == [1..size -> 0..MaxByte]

\* sizes standing for 1 MB, for LARGE_FILE_SIZE_MB and for MB // 100
ContentLen == 2
LargeContentLen == 3
CdnContentLen == 1

\* every s[i:j]
Slices(s) == {Slice(s, i, j) : i \in 0..Len(s), j \in 0..Len(s)}

---------------------------------------------------------------------------
(* The storage driver: the replies it may give and what a reply that       *)
(* reports success has done to the account.                                *)

Ok(v) == [kind |-> "ok", val |-> v]
Raise(e) == [kind |-> "raise", val |-> e]
SameReply(r, c) == r.kind = c.kind /\ r.val = c.val

Req(op) == [NoReq EXCEPT !.op = op]

\* what the contract of the driver answers
CreateContainerContract(st, name) ==
    IF name \in DOMAIN st THEN Raise("ContainerAlreadyExistsError") ELSE Ok(name)
GetContainerContract(st, name) ==
    IF name \in DOMAIN st THEN Ok(name) ELSE Raise("ContainerDoesNotExistError")
ListContainersContract(st) == Ok(SetToSeq(DOMAIN st))
DeleteContainerContract(st, name) ==
    IF name \notin DOMAIN st THEN Raise("ContainerDoesNotExistError")
    ELSE IF DOMAIN st[name] # {} THEN Raise("ContainerIsNotEmptyError")
    ELSE Ok(TRUE)

\* what a driver may answer
CreateContainerReplies(name) ==
    {Ok(name), Ok(OtherName), Raise("ContainerAlreadyExistsError"),
     Raise("LibcloudError")}
GetContainerReplies(name) ==
    {Ok(name), Ok(OtherName), Raise("ContainerDoesNotExistError"),
     Raise("LibcloudError")}
ListContainersReplies(st) ==
    {Ok(SetToSeq(S)) : S \in SUBSET (DOMAIN st \cup ContainerNames)}
        \cup {Raise("LibcloudError")}
DeleteContainerReplies ==
    {Ok(TRUE), Raise("ContainerDoesNotExistError"),
     Raise("ContainerIsNotEmptyError"), Raise("LibcloudError")}

\* the account after a call
AfterCreate(st, name, r) ==
    IF r.kind = "ok" /\ name \notin DOMAIN st
    THEN Merge(st, [n \in {name} |-> <<>>])
    ELSE st
AfterDeleteContainer(st, name, r) ==
    IF r.kind = "ok" THEN [n \in DOMAIN st \ {name} |-> st[n]] ELSE st
AfterUpload(st, cname, bname, content, r) ==
    IF r.kind = "ok" /\ cname \in DOMAIN st
    THEN [st EXCEPT ![cname] = Merge(@, [b \in {bname} |-> content])]
    ELSE st
AfterDeleteObject(st, cname, bname, r) ==
    IF r.kind = "ok" /\ cname \in DOMAIN st
    THEN [st EXCEPT ![cname] = [b \in DOMAIN @ \ {bname} |-> @[b]]]
    ELSE st

\* the objects a driver may answer with, and its other replies
ObjectReplies(cname, names, sizes) ==
    {Ok([name |-> n, size |-> z, container |-> cname]) : n \in names, z \in sizes}
ListObjectsReplies(st, cname) ==
    {Ok(SetToSeq(S)) :
        S \in SUBSET (IF cname \in DOMAIN st THEN DOMAIN st[cname] ELSE {})}
        \cup {Raise("LibcloudError")}
DeleteObjectReplies ==
    {Ok(TRUE), Raise("ObjectDoesNotExistError"), Raise("LibcloudError")}

\* the stored bytes of an object, empty when there is none
Stored(st, cname, bname) ==
    IF cname \in DOMAIN st /\ bname \in DOMAIN st[cname]
    THEN st[cname][bname] ELSE <<>>

---------------------------------------------------------------------------
(* The unittest runner and the fixtures of SmokeStorageTest.               *)

Tests ==
    {"test_cdn_url", "test_containers", "test_objects", "test_objects_large",
     "test_objects_range_downloads", "test_objects_stream_io",
     "test_objects_stream_iterable"}

ObjectTests ==
    {"test_objects", "test_objects_large", "test_objects_stream_io",
     "test_objects_stream_iterable"}

\* has_sas_support, for the classes that define it
HasSasSupport(c) == c = "AzuriteV3StorageTest"

\* the classes whose test_cdn_url is AzuriteStorageTest's
OverridesCdn(c) == c \in {"AzuriteStorageTest", "AzuriteV3StorageTest"}

\* FirstMissing looking at the provider only
FirstMissingProviderOnly(cfg) ==
    IF IsNone(GetAttr(cfg, "provider")) THEN "provider" ELSE ""

\* setUp, lines 25-28: the first required option without a value, "" if none
FirstMissing(cfg) ==
    LET required == <<"provider", "account", "secret">>
        missing == {k \in 1..3 : IsNone(GetAttr(cfg, required[k]))}
    IN  IF missing = {} THEN ""
        ELSE required[CHOOSE k \in missing : \A j \in missing : k <= j]

\* setUp, lines 30-35: the keyword arguments of the driver
DriverKwargs(cfg) ==
    LET given == {optional \in {"host", "port", "secure"} :
                     ~IsNone(GetAttr(cfg, optional))}
    IN  [k \in {"key", "secret"} \cup given |->
            CASE k = "key" -> cfg["account"]
              [] k = "secret" -> cfg["secret"]
              [] OTHER -> cfg[k]]

\* the first statement of a test method, by class
FirstStep(c, t) ==
    CASE t = "test_containers" -> "c_create"
      [] t \in ObjectTests -> "o_create"
      [] t = "test_objects_range_downloads" -> "r_create"
      [] t = "test_cdn_url" -> IF OverridesCdn(c) THEN "sas_check" ELSE "u_create"

\* the runner picks a check; a check whose skipUnless condition is false is
\* skipped before its setUp (test_objects_large, line 179)
StartCheck(t) ==
    /\ step = "idle"
    /\ test' = t
    /\ IF t = "test_objects_large" /\ ~env_large
       THEN /\ step' = "done"
            /\ outcome' = "skip"
            /\ reason' = [fmt |-> "config not set", arg |-> "none"]
       ELSE /\ step' = "setUp"
            /\ outcome' = "running"
            /\ reason' = NoReason
    /\ UNCHANGED <<env_large, store, loc, driver, req, deviated, did,
                   cliVars, classVars>>

\* SmokeStorageTest.setUp
SetUp ==
    /\ step = "setUp"
    /\ LET cfg == Config[ConfigClass(cls)]
           required == FirstMissing(cfg)
       IN  IF required # ""
           THEN /\ outcome' = "skip"
                /\ reason' = [fmt |-> "config {} not set", arg |-> required]
                /\ step' = "done"
                /\ UNCHANGED driver
           ELSE /\ driver' = [built |-> TRUE, provider |-> cfg["provider"],
                              kwargs |-> DriverKwargs(cfg)]
                /\ step' = FirstStep(cls, test)
                /\ UNCHANGED <<outcome, reason>>
    /\ UNCHANGED <<env_large, store, test, loc, req, deviated, did,
                   cliVars, classVars>>

\* obj.delete() for each object of a listing
RECURSIVE DeleteEach(_, _, _)
DeleteEach(st, c, objs) ==
    IF objs = <<>> THEN st
    ELSE DeleteEach(AfterDeleteObject(st, c, Head(objs), Ok(TRUE)), c, Tail(objs))

\* TearDownObjects without the inner loop
TearDownObjectsSkipped(st, c) == st

\* tearDown, lines 41-42: every object container.list_objects() gives is
\* deleted
TearDownObjects(st, c) == DeleteEach(st, c, SetToSeq(DOMAIN st[c]))

\* tearDown, lines 40-43, against a driver that keeps its contract: the
\* account it leaves, and whether a call raised
RECURSIVE TearDownContainers(_, _)
TearDownContainers(st, listing) ==
    IF listing = <<>> THEN [store |-> st, raised |-> FALSE]
    ELSE LET c == Head(listing)
             st1 == TearDownObjects(st, c)
             r == DeleteContainerContract(st1, c)
         IN  IF r.kind = "raise" THEN [store |-> st1, raised |-> TRUE]
             ELSE TearDownContainers(AfterDeleteContainer(st1, c, r),
                                     Tail(listing))

\* SmokeStorageTest.tearDown, run after every check whose setUp returned
TearDown ==
    /\ step = "tearDown"
    /\ LET res == TearDownContainers(store, ListContainersContract(store).val)
       IN  /\ store' = res.store
           /\ IF res.raised
              THEN outcome' = "error" /\ reason' = [fmt |-> "tearDown", arg |-> "none"]
              ELSE UNCHANGED <<outcome, reason>>
    /\ step' = "done"
    /\ loc' = NoLoc
    /\ UNCHANGED <<env_large, test, driver, req, deviated, did,
                   cliVars, classVars>>

\* the runner records the result and drops the test instance
Record ==
    /\ step = "done"
    /\ step' = "idle"
    /\ test' = "none"
    /\ outcome' = "none"
    /\ reason' = NoReason
    /\ driver' = NoDriver
    /\ req' = NoReq
    /\ deviated' = FALSE
    /\ did' = {}
    /\ UNCHANGED <<env_large, store, loc, cliVars, classVars>>

\* the end of a test method: its result, then tearDown
Finish(o) == outcome' = o /\ step' = "tearDown"


\* assertEqual(first, second)
AssertEqual(first, second) == IF first = second THEN "continue" ELSE "fail"

\* AssertRaises accepting any exception
AssertRaisesAny(r, exc) == IF r.kind = "ok" THEN "fail" ELSE "continue"

\* with self.assertRaises(exc): a call that returns fails the check, another
\* exception is an error of the check
AssertRaises(r, exc) ==
    IF r.kind = "ok" THEN "fail"
    ELSE IF r.val = exc THEN "continue" ELSE "error"

\* the check goes on to the next statement, or ends failed or in error
Go(res, next) ==
    IF res = "continue" THEN step' = next /\ UNCHANGED outcome ELSE Finish(res)

---------------------------------------------------------------------------
(* test_containers, lines 45-70.                                           *)

\* lines 47-49
ContainersCreate ==
    /\ test = "test_containers" /\ step = "c_create"
    /\ \E name \in ContainerNames : \E r \in CreateContainerReplies(name) :
        /\ store' = AfterCreate(store, name, r)
        /\ deviated' = (deviated \/ ~SameReply(r, CreateContainerContract(store, name)))
        /\ loc' = [loc EXCEPT !.container_name = name]
        /\ Go(IF r.kind = "raise" THEN "error" ELSE AssertEqual(r.val, name),
              "c_get")
    /\ req' = Req("create_container")
    /\ UNCHANGED <<env_large, test, driver, did, reason, cliVars, classVars>>

\* lines 50-51
ContainersGet ==
    /\ test = "test_containers" /\ step = "c_get"
    /\ \E r \in GetContainerReplies(loc.container_name) :
        /\ deviated' = (deviated \/
              ~SameReply(r, GetContainerContract(store, loc.container_name)))
        /\ loc' = [loc EXCEPT !.container = IF r.kind = "ok" THEN r.val ELSE <<>>]
        /\ Go(IF r.kind = "raise" THEN "error"
              ELSE AssertEqual(r.val, loc.container_name), "c_dup")
    /\ req' = Req("get_container")
    /\ UNCHANGED <<env_large, store, test, driver, did, reason, cliVars, classVars>>

\* lines 54-55
ContainersCreateAgain ==
    /\ test = "test_containers" /\ step = "c_dup"
    /\ \E r \in CreateContainerReplies(loc.container_name) :
        /\ store' = AfterCreate(store, loc.container_name, r)
        /\ deviated' = (deviated \/
              ~SameReply(r, CreateContainerContract(store, loc.container_name)))
        /\ Go(AssertRaises(r, "ContainerAlreadyExistsError"), "c_list")
    /\ req' = Req("create_container")
    /\ UNCHANGED <<env_large, test, loc, driver, did, reason, cliVars, classVars>>

\* lines 58-59
ContainersList ==
    /\ test = "test_containers" /\ step = "c_list"
    /\ \E r \in ListContainersReplies(store) :
        /\ deviated' = (deviated \/ ~SameReply(r, ListContainersContract(store)))
        /\ Go(IF r.kind = "raise" THEN "error"
              ELSE AssertEqual(r.val, <<loc.container_name>>), "c_delete")
    /\ req' = Req("list_containers")
    /\ UNCHANGED <<env_large, store, test, loc, driver, did, reason,
                   cliVars, classVars>>

\* line 62: the value delete_container returns is not looked at
ContainersDelete ==
    /\ test = "test_containers" /\ step = "c_delete"
    /\ \E r \in DeleteContainerReplies :
        /\ store' = AfterDeleteContainer(store, loc.container, r)
        /\ deviated' = (deviated \/
              ~SameReply(r, DeleteContainerContract(store, loc.container)))
        /\ Go(IF r.kind = "raise" THEN "error" ELSE "continue", "c_gone")
    /\ req' = Req("delete_container")
    /\ UNCHANGED <<env_large, test, loc, driver, did, reason, cliVars, classVars>>

\* lines 65-66
ContainersGetDeleted ==
    /\ test = "test_containers" /\ step = "c_gone"
    /\ \E r \in GetContainerReplies(loc.container_name) :
        /\ deviated' = (deviated \/
              ~SameReply(r, GetContainerContract(store, loc.container_name)))
        /\ Go(AssertRaises(r, "ContainerDoesNotExistError"), "c_empty")
    /\ req' = Req("get_container")
    /\ UNCHANGED <<env_large, store, test, loc, driver, did, reason,
                   cliVars, classVars>>

\* lines 69-70: the last statement, after which the check has passed
ContainersListEmpty ==
    /\ test = "test_containers" /\ step = "c_empty"
    /\ \E r \in ListContainersReplies(store) :
        /\ deviated' = (deviated \/ ~SameReply(r, ListContainersContract(store)))
        /\ LET res == IF r.kind = "raise" THEN "error"
                      ELSE AssertEqual(r.val, <<>>)
           IN  Finish(IF res = "continue" THEN "pass" ELSE res)
    /\ req' = Req("list_containers")
    /\ UNCHANGED <<env_large, store, test, loc, driver, did, reason,
                   cliVars, classVars>>

TestContainers ==
    \/ ContainersCreate \/ ContainersGet \/ ContainersCreateAgain
    \/ ContainersList \/ ContainersDelete \/ ContainersGetDeleted
    \/ ContainersListEmpty

---------------------------------------------------------------------------
(* _test_objects, lines 72-105, with the transports of test_objects,       *)
(* test_objects_large, test_objects_stream_io, test_objects_stream_iterable*)

\* the concatenation of the chunks of a stream: _read_stream, and what a
\* driver stores of an upload
RECURSIVE ReadStream(_)
ReadStream(stream) ==
    IF stream = <<>> THEN <<>> ELSE Head(stream) \o ReadStream(Tail(stream))

\* the ways a driver may cut bytes into the chunks of a stream
Chunkings(data) == {<<data>>, [k \in 1..Len(data) |-> <<data[k]>>]}

\* what do_upload hands to the driver: the temporary file's bytes (line 109),
\* a BytesIO (line 186), or the bytes one at a time (line 196)
UploadPayload(t, content) ==
    IF t = "test_objects_stream_iterable"
    THEN [i \in 1..Len(content) |-> Slice(content, i - 1, i)]
    ELSE <<content>>

UploadOp(t) ==
    IF t \in {"test_objects", "test_objects_large"}
    THEN "upload_object" ELSE "upload_object_via_stream"

DownloadOp(t) ==
    IF t \in {"test_objects", "test_objects_large"}
    THEN "download_object" ELSE "download_object_as_stream"

\* the bytes do_download returns for what the driver delivered: the output
\* file read back (lines 115-116) or the stream joined (line 190)
Downloaded(t, chunks) == ReadStream(chunks)

\* size of the payload of a check
SizeOf(t) == IF t = "test_objects_large" THEN LargeContentLen ELSE ContentLen

\* PrefixListingExpected naming the other object
PrefixListingExpectedReversed(blob_name) == <<Reverse(blob_name)>>

\* the expected listing of the prefix assertion, line 89
PrefixListingExpected(blob_name) == <<blob_name>>

\* lines 73-75
ObjectsCreate ==
    /\ test \in ObjectTests /\ step = "o_create"
    /\ \E content \in Payloads(SizeOf(test)) : \E name \in ContainerNames :
       \E r \in CreateContainerReplies(name) :
        /\ store' = AfterCreate(store, name, r)
        /\ loc' = [loc EXCEPT !.content = content, !.container_name = name,
                              !.blob_name = Chars("testblob"),
                              !.container = IF r.kind = "ok" THEN r.val ELSE <<>>]
        /\ Go(IF r.kind = "raise" THEN "error" ELSE "continue", "o_upload")
    /\ req' = Req("create_container")
    /\ UNCHANGED <<env_large, test, driver, deviated, did, reason,
                   cliVars, classVars>>

\* lines 78-79
ObjectsUpload ==
    /\ test \in ObjectTests /\ step = "o_upload"
    /\ \E r \in ObjectReplies(loc.container, {loc.blob_name, OtherName},
                              {Len(loc.content), 0}) \cup {Raise("LibcloudError")} :
        /\ store' = AfterUpload(store, loc.container, loc.blob_name,
                                ReadStream(UploadPayload(test, loc.content)), r)
        /\ Go(IF r.kind = "raise" THEN "error"
              ELSE AssertEqual(r.val.name, loc.blob_name), "o_get")
    /\ req' = Req(UploadOp(test))
    /\ UNCHANGED <<env_large, test, loc, driver, deviated, did, reason,
                   cliVars, classVars>>

\* line 80
ObjectsGet ==
    /\ test \in ObjectTests /\ step = "o_get"
    /\ \E r \in ObjectReplies(loc.container, {loc.blob_name, OtherName},
                              {Len(loc.content), 0})
                \cup {Raise("ObjectDoesNotExistError"), Raise("LibcloudError")} :
        /\ loc' = [loc EXCEPT !.obj = IF r.kind = "ok" THEN r.val ELSE NoObj]
        /\ Go(IF r.kind = "raise" THEN "error" ELSE "continue", "o_list")
    /\ req' = Req("get_object")
    /\ UNCHANGED <<env_large, store, test, driver, deviated, did, reason,
                   cliVars, classVars>>

\* lines 83-84
ObjectsList ==
    /\ test \in ObjectTests /\ step = "o_list"
    /\ \E r \in ListObjectsReplies(store, loc.container) :
        Go(IF r.kind = "raise" THEN "error"
           ELSE AssertEqual(r.val, <<loc.blob_name>>), "o_upload2")
    /\ req' = Req("list_container_objects")
    /\ UNCHANGED <<env_large, store, test, loc, driver, deviated, did, reason,
                   cliVars, classVars>>

\* line 87: a second object, name and content reversed
ObjectsUploadReversed ==
    /\ test \in ObjectTests /\ step = "o_upload2"
    /\ \E r \in ObjectReplies(loc.container, {Reverse(loc.blob_name), OtherName},
                              {Len(loc.content), 0}) \cup {Raise("LibcloudError")} :
        /\ store' = AfterUpload(store, loc.container, Reverse(loc.blob_name),
                        ReadStream(UploadPayload(test, Reverse(loc.content))), r)
        /\ Go(IF r.kind = "raise" THEN "error" ELSE "continue", "o_prefix")
    /\ req' = Req(UploadOp(test))
    /\ UNCHANGED <<env_large, test, loc, driver, deviated, did, reason,
                   cliVars, classVars>>

\* lines 88-89: the listing with ex_prefix=blob_name[0:3]
ObjectsListPrefix ==
    /\ test \in ObjectTests /\ step = "o_prefix"
    /\ \E r \in ListObjectsReplies(store, loc.container) :
        /\ loc' = [loc EXCEPT !.listed = IF r.kind = "ok" THEN r.val ELSE <<>>]
        /\ Go(IF r.kind = "raise" THEN "error"
              ELSE AssertEqual(r.val, PrefixListingExpected(loc.blob_name)),
              "o_download")
    /\ req' = [Req("list_container_objects") EXCEPT
                  !.prefix = Slice(loc.blob_name, 0, 3)]
    /\ UNCHANGED <<env_large, store, test, driver, deviated, did, reason,
                   cliVars, classVars>>

\* line 92
ObjectsDownload ==
    /\ test \in ObjectTests /\ step = "o_download"
    /\ \E r \in {Ok(c) : c \in UNION {Chunkings(d) :
                     d \in Slices(Stored(store, loc.obj.container, loc.obj.name))}}
                \cup {Raise("LibcloudError")} :
        Go(IF r.kind = "raise" THEN "error"
           ELSE AssertEqual(Downloaded(test, r.val), loc.content), "o_delete")
    /\ req' = Req(DownloadOp(test))
    /\ UNCHANGED <<env_large, store, test, loc, driver, deviated, did, reason,
                   cliVars, classVars>>

\* line 95
ObjectsDelete ==
    /\ test \in ObjectTests /\ step = "o_delete"
    /\ \E r \in DeleteObjectReplies :
        /\ store' = AfterDeleteObject(store, loc.obj.container, loc.obj.name, r)
        /\ Go(IF r.kind = "raise" THEN "error" ELSE "continue", "o_delete2")
    /\ req' = Req("delete_object")
    /\ UNCHANGED <<env_large, test, loc, driver, deviated, did, reason,
                   cliVars, classVars>>

\* lines 98-99
ObjectsDeleteAgain ==
    /\ test \in ObjectTests /\ step = "o_delete2"
    /\ \E r \in DeleteObjectReplies :
        /\ store' = AfterDeleteObject(store, loc.obj.container, loc.obj.name, r)
        /\ Go(AssertRaises(r, "ObjectDoesNotExistError"), "o_gone")
    /\ req' = Req("delete_object")
    /\ UNCHANGED <<env_large, test, loc, driver, deviated, did, reason,
                   cliVars, classVars>>

\* lines 100-101
ObjectsGetDeleted ==
    /\ test \in ObjectTests /\ step = "o_gone"
    /\ \E r \in ObjectReplies(loc.container, {loc.blob_name, OtherName},
                              {Len(loc.content), 0})
                \cup {Raise("ObjectDoesNotExistError"), Raise("LibcloudError")} :
        Go(AssertRaises(r, "ObjectDoesNotExistError"), "o_rest")
    /\ req' = Req("get_object")
    /\ UNCHANGED <<env_large, store, test, loc, driver, deviated, did, reason,
                   cliVars, classVars>>

\* lines 104-105: the last statement
ObjectsListRest ==
    /\ test \in ObjectTests /\ step = "o_rest"
    /\ \E r \in ListObjectsReplies(store, loc.container) :
        LET res == IF r.kind = "raise" THEN "error"
                   ELSE AssertEqual(r.val, <<Reverse(loc.blob_name)>>)
        IN  Finish(IF res = "continue" THEN "pass" ELSE res)
    /\ req' = Req("list_container_objects")
    /\ UNCHANGED <<env_large, store, test, loc, driver, deviated, did, reason,
                   cliVars, classVars>>

TestObjects ==
    \/ ObjectsCreate \/ ObjectsUpload \/ ObjectsGet \/ ObjectsList
    \/ ObjectsUploadReversed \/ ObjectsListPrefix \/ ObjectsDownload
    \/ ObjectsDelete \/ ObjectsDeleteAgain \/ ObjectsGetDeleted
    \/ ObjectsListRest

---------------------------------------------------------------------------
(* test_objects_range_downloads, lines 120-177.                            *)

\* b"0123456789"
RangeContent == <<48, 49, 50, 51, 52, 53, 54, 55, 56, 57>>

\* lines 134-151
Values(content) ==
    <<[start_bytes |-> PyInt(0), end_bytes |-> PyInt(0)],
      [start_bytes |-> PyInt(1), end_bytes |-> PyInt(5)],
      [start_bytes |-> PyInt(5), end_bytes |-> None],
      [start_bytes |-> PyInt(5), end_bytes |-> PyInt(Len(content))]>>

\* lines 168-171: a slice of bytes is bytes, one element of bytes is an int
ExpectedContent(content, start_bytes, end_bytes) ==
    IF ~IsNone(end_bytes)
    THEN PyBytes(Slice(content, start_bytes.v, end_bytes.v + 1))
    ELSE PyInt(content[start_bytes.v + 1])

\* the request of the first download of a round, lines 159-162
RangeFileRequest(value) ==
    [op |-> "download_object_range", start |-> value.start_bytes,
     end |-> value.end_bytes, prefix |-> <<>>]

\* the request of the second download of a round, line 176
RangeStreamRequest(value) == Req("download_object_as_stream")

\* lines 121-123
RangeCreate ==
    /\ test = "test_objects_range_downloads" /\ step = "r_create"
    /\ \E name \in ContainerNames : \E r \in CreateContainerReplies(name) :
        /\ store' = AfterCreate(store, name, r)
        /\ loc' = [loc EXCEPT !.content = RangeContent, !.container_name = name,
                              !.blob_name = Chars("testblob-range"),
                              !.container = IF r.kind = "ok" THEN r.val ELSE <<>>]
        /\ Go(IF r.kind = "raise" THEN "error" ELSE "continue", "r_upload")
    /\ req' = Req("create_container")
    /\ UNCHANGED <<env_large, test, driver, deviated, did, reason,
                   cliVars, classVars>>

\* lines 125-128
RangeUpload ==
    /\ test = "test_objects_range_downloads" /\ step = "r_upload"
    /\ \E r \in ObjectReplies(loc.container, {loc.blob_name, OtherName},
                              {Len(loc.content), 0}) \cup {Raise("LibcloudError")} :
        /\ store' = AfterUpload(store, loc.container, loc.blob_name, loc.content, r)
        /\ Go(IF r.kind = "raise" THEN "error"
              ELSE IF AssertEqual(r.val.name, loc.blob_name) = "fail" THEN "fail"
              ELSE AssertEqual(r.val.size, Len(loc.content)), "r_get")
    /\ req' = Req("upload_object")
    /\ UNCHANGED <<env_large, test, loc, driver, deviated, did, reason,
                   cliVars, classVars>>

\* lines 130-132
RangeGet ==
    /\ test = "test_objects_range_downloads" /\ step = "r_get"
    /\ \E r \in ObjectReplies(loc.container, {loc.blob_name, OtherName},
                              {Len(loc.content), 0})
                \cup {Raise("ObjectDoesNotExistError"), Raise("LibcloudError")} :
        /\ loc' = [loc EXCEPT !.obj = IF r.kind = "ok" THEN r.val ELSE NoObj,
                              !.idx = 1]
        /\ Go(IF r.kind = "raise" THEN "error"
              ELSE IF AssertEqual(r.val.name, loc.blob_name) = "fail" THEN "fail"
              ELSE AssertEqual(r.val.size, Len(loc.content)), "r_file")
    /\ req' = Req("get_object")
    /\ UNCHANGED <<env_large, store, test, driver, deviated, did, reason,
                   cliVars, classVars>>

\* lines 155-173: download_object_range into a file, read back and compared
RangeFile ==
    /\ test = "test_objects_range_downloads" /\ step = "r_file"
    /\ LET value == Values(loc.content)[loc.idx]
           expected_content ==
               ExpectedContent(loc.content, value.start_bytes, value.end_bytes)
       IN  /\ req' = RangeFileRequest(value)
           /\ \E r \in {Ok([result |-> b, data |-> d]) : b \in BOOLEAN,
                           d \in Slices(Stored(store, loc.obj.container, loc.obj.name))}
                       \cup {Raise("LibcloudError")} :
                IF r.kind = "raise" THEN Finish("error") /\ UNCHANGED loc
                ELSE IF ~r.val.result THEN Finish("fail") /\ UNCHANGED loc
                ELSE /\ loc' = [loc EXCEPT !.expected = expected_content]
                     /\ Go(IF PyEq(PyBytes(r.val.data), expected_content)
                           THEN "continue" ELSE "fail", "r_stream")
    /\ UNCHANGED <<env_large, store, test, driver, deviated, did, reason,
                   cliVars, classVars>>

\* lines 175-177: the stream download, compared with the same expected
\* content; then the next round, or the end of the check
RangeStream ==
    /\ test = "test_objects_range_downloads" /\ step = "r_stream"
    /\ req' = RangeStreamRequest(Values(loc.content)[loc.idx])
    /\ \E r \in {Ok(c) : c \in UNION {Chunkings(d) :
                     d \in Slices(Stored(store, loc.obj.container, loc.obj.name))}}
                \cup {Raise("LibcloudError")} :
        IF r.kind = "raise" THEN Finish("error") /\ UNCHANGED loc
        ELSE IF ~PyEq(PyBytes(ReadStream(r.val)), loc.expected)
        THEN Finish("fail") /\ UNCHANGED loc
        ELSE IF loc.idx < Len(Values(loc.content))
        THEN /\ loc' = [loc EXCEPT !.idx = @ + 1]
             /\ step' = "r_file"
             /\ UNCHANGED outcome
        ELSE Finish("pass") /\ UNCHANGED loc
    /\ UNCHANGED <<env_large, store, test, driver, deviated, did, reason,
                   cliVars, classVars>>

TestRange == RangeCreate \/ RangeUpload \/ RangeGet \/ RangeFile \/ RangeStream

---------------------------------------------------------------------------
(* test_cdn_url: SmokeStorageTest's, lines 204-212, and the one of         *)
(* AzuriteStorageTest, lines 338-340.                                      *)

\* lines 205-206
CdnCreate ==
    /\ test = "test_cdn_url" /\ step = "u_create"
    /\ \E content \in Payloads(CdnContentLen) : \E name \in ContainerNames :
       \E r \in CreateContainerReplies(name) :
        /\ store' = AfterCreate(store, name, r)
        /\ loc' = [loc EXCEPT !.content = content, !.container_name = name,
                              !.blob_name = Chars("cdn"),
                              !.container = IF r.kind = "ok" THEN r.val ELSE <<>>]
        /\ Go(IF r.kind = "raise" THEN "error" ELSE "continue", "u_upload")
    /\ req' = Req("create_container")
    /\ UNCHANGED <<env_large, test, driver, deviated, did, reason,
                   cliVars, classVars>>

\* line 207
CdnUpload ==
    /\ test = "test_cdn_url" /\ step = "u_upload"
    /\ \E r \in ObjectReplies(loc.container, {loc.blob_name, OtherName},
                              {Len(loc.content), 0}) \cup {Raise("LibcloudError")} :
        /\ store' = AfterUpload(store, loc.container, loc.blob_name, loc.content, r)
        /\ loc' = [loc EXCEPT !.obj = IF r.kind = "ok" THEN r.val ELSE NoObj]
        /\ did' = IF r.kind = "ok" THEN did \cup {"upload"} ELSE did
        /\ Go(IF r.kind = "raise" THEN "error" ELSE "continue", "u_fetch")
    /\ req' = Req("upload_object_via_stream")
    /\ UNCHANGED <<env_large, test, driver, deviated, reason, cliVars, classVars>>

\* lines 209-210: the delivery URL of the driver, fetched with requests.get;
\* raise_for_status raises on a 4xx or 5xx status
CdnFetch ==
    /\ test = "test_cdn_url" /\ step = "u_fetch"
    /\ \E url \in {Ok(loc.obj), Raise("LibcloudError")} :
       \E response \in {Ok([status_code |-> c, content |-> d]) : c \in {200, 403},
                           d \in Slices(Stored(store, loc.obj.container, loc.obj.name))}
                       \cup {Raise("ConnectionError")} :
        IF url.kind = "raise" \/ response.kind = "raise"
        THEN Finish("error") /\ UNCHANGED <<loc, did>>
        ELSE IF response.val.status_code >= 400
        THEN Finish("error") /\ did' = did \cup {"fetch"} /\ UNCHANGED loc
        ELSE /\ loc' = [loc EXCEPT !.response = response.val.content]
             /\ did' = did \cup {"fetch"}
             /\ step' = "u_compare"
             /\ UNCHANGED outcome
    /\ req' = Req("get_object_cdn_url")
    /\ UNCHANGED <<env_large, store, test, driver, deviated, reason,
                   cliVars, classVars>>

\* line 212
CdnCompare ==
    /\ test = "test_cdn_url" /\ step = "u_compare"
    /\ did' = did \cup {"compare"}
    /\ Finish(IF loc.response = loc.content THEN "pass" ELSE "fail")
    /\ UNCHANGED <<env_large, store, test, loc, driver, req, deviated, reason,
                   cliVars, classVars>>

\* AzuriteStorageTest.test_cdn_url, lines 338-340: skipTest without account
\* SAS support; otherwise the method returns
CdnAzurite ==
    /\ test = "test_cdn_url" /\ step = "sas_check"
    /\ IF ~HasSasSupport(cls)
       THEN /\ Finish("skip")
            /\ reason' = [fmt |-> "Storage backend has no account SAS support",
                          arg |-> "none"]
       ELSE Finish("pass") /\ UNCHANGED reason
    /\ UNCHANGED <<env_large, store, test, loc, driver, req, deviated, did,
                   cliVars, classVars>>

TestCdn == CdnCreate \/ CdnUpload \/ CdnFetch \/ CdnCompare \/ CdnAzurite

---------------------------------------------------------------------------
(* What setUpClass leaves in Config.                                       *)

\* the letters in the order of their ASCII codes, from 65 and from 97
Letters ==
    [upper |-> <<"A","B","C","D","E","F","G","H","I","J","K","L","M",
                 "N","O","P","Q","R","S","T","U","V","W","X","Y","Z">>,
     lower |-> <<"a","b","c","d","e","f","g","h","i","j","k","l","m",
                 "n","o","p","q","r","s","t","u","v","w","x","y","z">>]

\* s.encode("ascii"), for lower case letters and digits
Encode(s) ==
    LET Ord(c) ==
            IF \E k \in 1..10 : Digits[k] = c
            THEN 47 + (CHOOSE k \in 1..10 : Digits[k] = c)
            ELSE 96 + (CHOOSE k \in 1..26 : Letters.lower[k] = c)
    IN  [k \in 1..Len(s) |-> Ord(s[k])]

\* base64.b64encode(data).decode("ascii")
RECURSIVE Base64(_)
Base64(data) ==
    LET A(n) == (Letters.upper \o Letters.lower \o Digits \o <<"+", "/">>)[n + 1]
    IN  IF Len(data) = 0 THEN <<>>
        ELSE IF Len(data) = 1
        THEN <<A(data[1] \div 4), A((data[1] % 4) * 16), "=", "=">>
        ELSE IF Len(data) = 2
        THEN <<A(data[1] \div 4), A((data[1] % 4) * 16 + data[2] \div 16),
               A((data[2] % 16) * 4), "=">>
        ELSE <<A(data[1] \div 4), A((data[1] % 4) * 16 + data[2] \div 16),
               A((data[2] % 16) * 4 + data[3] \div 64), A(data[3] % 64)>>
             \o Base64(Slice(data, 3, Len(data)))

\* the identifier spelled by a sequence of characters
Named(chars) ==
    CHOOSE n \in {"provider", "account", "secret", "host", "port", "secure",
                  "username", "password", "tenant", "subscription", "location",
                  "template_file", "kind", "version"} : Chars(n) = chars

\* AzuriteStorageTest.setUpClass, lines 323-330
AzuriteSetUpClassConfig(cfg) ==
    Merge(cfg,
          [n \in {"account", "secret", "host", "secure", "provider"} |->
             CASE n = "account" -> PyStr(Chars("devstoreaccount1"))
               [] n = "secret" -> PyStr(Chars("AzuriteSecret"))
               [] n = "host" -> PyStr(Chars("localhost"))
               [] n = "secure" -> PyBool(FALSE)
               [] n = "provider" -> PyStr(Chars("azure_blobs"))])

\* IotedgeStorageTest.setUpClass, lines 360-361 and 374-378, for the two
\* random strings drawn
IotedgeSetUpClassConfig(cfg, random10, random20) ==
    LET account == random10
        key == Base64(Encode(random20))
    IN  Merge(cfg,
          [n \in {"account", "secret", "host", "secure", "provider"} |->
             CASE n = "account" -> PyStr(account)
               [] n = "secret" -> PyStr(key)
               [] n = "host" -> PyStr(Chars("localhost"))
               [] n = "secure" -> PyBool(FALSE)
               [] n = "provider" -> PyStr(Chars("azure_blobs"))])

\* AzureStorageTest.setUpClass, lines 272-275: each output of the deployment
\* under its lower-cased key, then the provider
AzureSetUpClassConfig(cfg, outputs) ==
    LET keys == {Named(Lower(Chars(k))) : k \in DOMAIN outputs}
        set == [n \in keys |->
                  outputs[CHOOSE k \in DOMAIN outputs :
                              Named(Lower(Chars(k))) = n].value]
    IN  Merge(Merge(cfg, set),
              [n \in {"provider"} |-> PyStr(Chars("azure_blobs"))])

\* ---- the inputs tried
\* deployment.properties.outputs of the template
OutputsTried ==
    {[k \in K |-> [value |-> PyStr(TokenX)]] : K \in SUBSET {"Account", "Secret"}}

\* _random_string(10) and _random_string(20)
IotedgeDraws ==
    {[random10 |-> [k \in 1..10 |-> c], random20 |-> [k \in 1..20 |-> c]] :
        c \in RandomAlphabet}

\* the credentials of the Azure sub-command, as the command line sets them
AzureCredentials ==
    [n \in {"username", "password", "tenant", "subscription"} |-> PyStr(TokenX)]

\* the Config a test class can have when its checks start
SuiteConfigs(c) ==
    LET cfg == InitialConfig[ConfigClass(c)]
    IN  CASE c = "SmokeStorageTest" ->
               {Merge(cfg, [n \in {"provider", "account", "secret"} |->
                              CASE n = "provider" -> p
                                [] n = "account" -> a
                                [] n = "secret" -> k]) :
                    p \in {None, PyStr(Chars("azure_blobs"))},
                    a \in {None, PyStr(TokenX)},
                    k \in {None, PyStr(Token80)}}
          [] c = "AzureStorageTest" ->
               {AzureSetUpClassConfig(Merge(cfg, AzureCredentials), o) :
                    o \in OutputsTried}
          [] c \in {"AzuriteStorageTest", "AzuriteV3StorageTest"} ->
               {AzuriteSetUpClassConfig(cfg)}
          [] c = "IotedgeStorageTest" ->
               {IotedgeSetUpClassConfig(cfg, d.random10, d.random20) :
                    d \in IotedgeDraws}

---------------------------------------------------------------------------
(* The checks of one test class.                                           *)

Init ==
    /\ pc = "main"
    /\ argv = [mode |-> NoMode, given |-> <<>>]
    /\ parser = <<>>
    /\ args = <<>>
    /\ cls \in Classes
    /\ Config \in {[InitialConfig EXCEPT ![ConfigClass(cls)] = c] :
                      c \in SuiteConfigs(cls)}
    /\ env_large \in BOOLEAN
    /\ store = <<>>
    /\ test = "none"
    /\ step = "idle"
    /\ loc = NoLoc
    /\ driver = NoDriver
    /\ req = NoReq
    /\ deviated = FALSE
    /\ did = {}
    /\ outcome = "none"
    /\ reason = NoReason
    /\ ClassIdle

Next ==
    \/ \E t \in Tests : StartCheck(t)
    \/ SetUp
    \/ TestContainers
    \/ TestObjects
    \/ TestRange
    \/ TestCdn
    \/ TearDown
    \/ Record

Spec == Init /\ [][Next]_vars

---------------------------------------------------------------------------
(* The class fixtures: setUpClass, the checks, tearDownClass. The runner   *)
(* calls tearDownClass after the checks of a class whose setUpClass        *)
(* returned; when setUpClass raises (SkipTest included) neither the checks *)
(* nor tearDownClass run.                                                  *)

Emulators == {"AzuriteStorageTest", "AzuriteV3StorageTest", "IotedgeStorageTest"}

\* line 252, for one draw of _random_string(length=23)
ResourceGroupName(random23) == Chars("libcloudtest") \o random23

\* the names a run can generate
GroupNames == {ResourceGroupName(x) : x \in RandomStrings(23)}

\* lines 280-284: the groups of the listing whose name starts with the
\* generated name, each with the provisioning state the listing shows
MatchingGroups(gs, name) ==
    LET names == SetToSeq(DOMAIN gs)
        listing == [k \in 1..Len(names) |->
                      [name |-> names[k], state |-> gs[names[k]]]]
    IN  SelectSeq(listing, LAMBDA group : StartsWith(group.name, name))

\* WantsDelete without the look at the provisioning state
WantsDeleteAlways(group) == TRUE

\* line 290: whether deletion of a listed group is requested
WantsDelete(group) == group.state # "Deleting"

\* lines 295-296: where the loop goes after a delete request that raised
AfterDeleteRaised(next) == next

\* AzureStorageTest.setUpClass, lines 238-241
AzureImport ==
    /\ cls = "AzureStorageTest" /\ cpc = "start"
    /\ \E installed \in BOOLEAN :
        cpc' = IF installed THEN "a_client" ELSE "skipped"
    /\ UNCHANGED <<groups, rgname, snapshot, visited, requested, lastDelete,
                   emulator, cliVars, suiteVars>>

\* lines 243-252: the client and a fresh random name
AzureClient ==
    /\ cls = "AzureStorageTest" /\ cpc = "a_client"
    /\ \E x \in RandomStrings(23) :
        /\ ResourceGroupName(x) \notin DOMAIN groups
        /\ rgname' = ResourceGroupName(x)
    /\ cpc' = "a_group"
    /\ UNCHANGED <<groups, snapshot, visited, requested, lastDelete, emulator,
                   cliVars, suiteVars>>

\* lines 254-257
AzureCreateGroup ==
    /\ cls = "AzureStorageTest" /\ cpc = "a_group"
    /\ \E raised \in BOOLEAN :
        IF raised THEN cpc' = "setup_error" /\ UNCHANGED groups
        ELSE /\ groups' = Merge(groups, [n \in {rgname} |-> "Succeeded"])
             /\ cpc' = "a_template"
    /\ UNCHANGED <<rgname, snapshot, visited, requested, lastDelete, emulator,
                   cliVars, suiteVars>>

\* lines 259-260: the template file is opened and parsed
AzureTemplate ==
    /\ cls = "AzureStorageTest" /\ cpc = "a_template"
    /\ \E raised \in BOOLEAN :
        cpc' = IF raised THEN "setup_error" ELSE "a_deploy"
    /\ UNCHANGED <<groups, rgname, snapshot, visited, requested, lastDelete,
                   emulator, cliVars, suiteVars>>

\* lines 262-275: the deployment, its outputs into Config
AzureDeploy ==
    /\ cls = "AzureStorageTest" /\ cpc = "a_deploy"
    /\ \/ /\ cpc' = "setup_error"
          /\ UNCHANGED Config
       \/ \E outputs \in OutputsTried :
          /\ Config' = [Config EXCEPT ![ConfigClass(cls)] =
                           AzureSetUpClassConfig(@, outputs)]
          /\ cpc' = "tests"
    /\ UNCHANGED <<pc, argv, parser, args, cls, groups, rgname, snapshot,
                   visited, requested, lastDelete, emulator, suiteVars>>

\* AzureStorageTest.tearDownClass, lines 280-287: one listing; the loop ends
\* when no group matches
TearDownList ==
    /\ cls = "AzureStorageTest" /\ cpc = "tearDownClass"
    /\ snapshot' = MatchingGroups(groups, rgname)
    /\ visited' = 0
    /\ requested' = {}
    /\ cpc' = IF snapshot' = <<>> THEN "done" ELSE "td_visit"
    /\ UNCHANGED <<groups, rgname, lastDelete, emulator, cliVars, suiteVars>>

\* lines 289-296: one group of the for loop; a delete request may be
\* accepted or raise, and a request that raised may have been accepted
TearDownVisit ==
    /\ cls = "AzureStorageTest" /\ cpc = "td_visit"
    /\ LET group == snapshot[visited + 1]
           next == IF visited + 1 = Len(snapshot) THEN "td_sleep" ELSE "td_visit"
       IN  IF WantsDelete(group)
           THEN \E accepted \in BOOLEAN, raised \in BOOLEAN :
                /\ groups' = IF accepted /\ group.name \in DOMAIN groups
                             THEN [groups EXCEPT ![group.name] = "Deleting"]
                             ELSE groups
                /\ requested' = requested \cup {group.name}
                /\ lastDelete' = [name |-> group.name, state |-> group.state,
                                  raised |-> raised]
                /\ cpc' = IF raised THEN AfterDeleteRaised(next) ELSE next
           ELSE /\ cpc' = next
                /\ UNCHANGED <<groups, requested, lastDelete>>
    /\ visited' = visited + 1
    /\ UNCHANGED <<rgname, snapshot, emulator, cliVars, suiteVars>>

\* line 298
TearDownSleep ==
    /\ cls = "AzureStorageTest" /\ cpc = "td_sleep"
    /\ cpc' = "tearDownClass"
    /\ UNCHANGED <<groups, rgname, snapshot, visited, requested, lastDelete,
                   emulator, cliVars, suiteVars>>

AzureTearDownClass == TearDownList \/ TearDownVisit \/ TearDownSleep

\* the resource manager: a group being deleted leaves the listing
GroupDeleted ==
    /\ \E g \in DOMAIN groups :
        /\ groups[g] = "Deleting"
        /\ groups' = [n \in DOMAIN groups \ {g} |-> groups[n]]
    /\ UNCHANGED <<cpc, rgname, snapshot, visited, requested, lastDelete,
                   emulator, cliVars, suiteVars>>

\* the resource manager: a deletion fails and the group stays
DeletionFailed ==
    /\ \E g \in DOMAIN groups :
        /\ groups[g] = "Deleting"
        /\ groups' = [groups EXCEPT ![g] = "Failed"]
    /\ UNCHANGED <<cpc, rgname, snapshot, visited, requested, lastDelete,
                   emulator, cliVars, suiteVars>>

\* _new_docker_client, lines 387-393, called at lines 313 and 358
DockerClient ==
    /\ cls \in Emulators /\ cpc = "start"
    /\ \E installed \in BOOLEAN :
        cpc' = IF installed THEN "e_run" ELSE "skipped"
    /\ UNCHANGED <<groups, rgname, snapshot, visited, requested, lastDelete,
                   emulator, cliVars, suiteVars>>

\* client.containers.run, lines 315-321 and 363-372
EmulatorRun ==
    /\ cls \in Emulators /\ cpc = "e_run"
    /\ \E raised \in BOOLEAN :
        IF raised THEN cpc' = "setup_error" /\ UNCHANGED emulator
        ELSE emulator' = "running" /\ cpc' = "e_config"
    /\ UNCHANGED <<groups, rgname, snapshot, visited, requested, lastDelete,
                   cliVars, suiteVars>>

\* lines 323-332 and 374-380: the connection parameters, then the settle delay
EmulatorConfig ==
    /\ cls \in Emulators /\ cpc = "e_config"
    /\ IF cls = "IotedgeStorageTest"
       THEN \E d \in IotedgeDraws :
            Config' = [Config EXCEPT ![ConfigClass(cls)] =
                          IotedgeSetUpClassConfig(@, d.random10, d.random20)]
       ELSE Config' = [Config EXCEPT ![ConfigClass(cls)] =
                          AzuriteSetUpClassConfig(@)]
    /\ cpc' = "tests"
    /\ UNCHANGED <<pc, argv, parser, args, cls, groups, rgname, snapshot, visited,
                   requested, lastDelete, emulator, suiteVars>>


\* _kill_and_log, lines 396-399: the log lines are printed, then the kill
KillAndLog(container) == "killed"

\* tearDownClass of the emulator classes, lines 334-336 and 382-384
EmulatorTearDownClass ==
    /\ cls \in Emulators /\ cpc = "tearDownClass"
    /\ emulator' = KillAndLog(emulator)
    /\ cpc' = "done"
    /\ UNCHANGED <<groups, rgname, snapshot, visited, requested, lastDelete,
                   cliVars, suiteVars>>

\* SmokeStorageTest has no class fixtures
SmokeSetUpClass ==
    /\ cls = "SmokeStorageTest" /\ cpc = "start"
    /\ cpc' = "tests"
    /\ UNCHANGED <<groups, rgname, snapshot, visited, requested, lastDelete,
                   emulator, cliVars, suiteVars>>

\* the checks of the class run, with any result; then tearDownClass
RunChecks ==
    /\ cpc = "tests"
    /\ \E o \in {"pass", "fail", "error", "skip"} : outcome' = o
    /\ cpc' = IF cls = "SmokeStorageTest" THEN "done" ELSE "tearDownClass"
    /\ UNCHANGED <<env_large, store, test, step, loc, driver, req, deviated,
                   did, reason, groups, rgname, snapshot, visited, requested,
                   lastDelete, emulator, cliVars>>

\* the Config a class has when the runner starts on it
ClassConfigs(c) ==
    LET cfg == InitialConfig[ConfigClass(c)]
    IN  CASE c = "SmokeStorageTest" -> SuiteConfigs(c)
          [] c = "AzureStorageTest" -> {Merge(cfg, AzureCredentials)}
          [] OTHER -> {cfg, Merge(cfg, [n \in {"version"} |-> PyStr(TokenX)])}

\* the groups of the subscription before the run: none, or those of another
\* run and of another kind, in any provisioning state
GroupsBefore ==
    UNION {[D -> {"Succeeded", "Deleting"}] :
             D \in SUBSET (GroupNames \cup {<<"p", "r", "o", "d">>})}

InitClass ==
    /\ CliIdle
    /\ cls \in Classes
    /\ Config \in {[InitialConfig EXCEPT ![ConfigClass(cls)] = c] :
                      c \in ClassConfigs(cls)}
    /\ SuiteIdle
    /\ cpc = "start"
    /\ groups \in (IF cls = "AzureStorageTest" THEN GroupsBefore ELSE {<<>>})
    /\ rgname = <<>>
    /\ snapshot = <<>>
    /\ visited = 0
    /\ requested = {}
    /\ lastDelete = NoDelete
    /\ emulator = "none"

NextClass ==
    \/ SmokeSetUpClass
    \/ AzureImport \/ AzureClient \/ AzureCreateGroup \/ AzureTemplate
    \/ AzureDeploy
    \/ DockerClient \/ EmulatorRun \/ EmulatorConfig
    \/ RunChecks
    \/ AzureTearDownClass
    \/ EmulatorTearDownClass
    \/ GroupDeleted \/ DeletionFailed

\* the statements of tearDownClass are executed one after the other; the
\* resource manager owes nothing
SpecClass == InitClass /\ [][NextClass]_vars /\ WF_vars(AzureTearDownClass)

---------------------------------------------------------------------------
(* The claims.                                                             *)

\* C1. Teardown completeness: once tearDown has run after a check whose
\* setUp built a driver, whatever the check's outcome, the account holds no
\* container and no object, and the next check starts from an empty account.
TeardownCompleteness ==
    /\ (step = "done" /\ driver.built) =>
           (DOMAIN store = {} /\ reason.fmt # "tearDown")
    /\ step = "idle" => DOMAIN store = {}

\* a check that raised at delete_object, its objects still in the account,
\* and was torn down
TeardownCompletenessWitness ==
    /\ step = "done" /\ driver.built
    /\ test = "test_objects" /\ outcome = "error" /\ req.op = "delete_object"

\* C2. A provisioned backend is destroyed on every exit path: when the run
\* of a class has ended (tearDownClass returned, setUpClass skipped or
\* setUpClass raised), no emulator container is running and no resource
\* group of the generated name is left.
ProvisionedBackendDestroyed ==
    cpc \in {"done", "skipped", "setup_error"} =>
        /\ emulator # "running"
        /\ rgname # <<>> => \A g \in DOMAIN groups : ~StartsWith(g, rgname)

\* C3. Missing required configuration skips, never fails: with provider,
\* account or secret None or absent the check ends skipped in setUp with a
\* reason naming such an option, no driver is built and no request is sent;
\* with all three set a driver is built.
MissingConfigSkips ==
    LET cfg == Config[ConfigClass(cls)]
        missing == {o \in {"provider", "account", "secret"} :
                       o \notin DOMAIN cfg \/ cfg[o].t = "NoneType"}
    IN  (test # "none" /\ step # "setUp"
            /\ ~(test = "test_objects_large" /\ ~env_large)) =>
            IF missing # {}
            THEN /\ step = "done" /\ outcome = "skip"
                 /\ reason.fmt = "config {} not set" /\ reason.arg \in missing
                 /\ ~driver.built /\ req = NoReq /\ DOMAIN store = {}
            ELSE driver.built

\* a class whose Config has no account attribute at all, skipped
MissingConfigSkipsWitness ==
    /\ cls = "AzureStorageTest" /\ step = "done" /\ outcome = "skip"
    /\ "account" \notin DOMAIN Config[ConfigClass(cls)]
    /\ reason.arg = "account"

\* C4. Container lifecycle: test_containers passes exactly when every reply
\* of the driver was the contract's (create and get give the name back, a
\* second create raises ContainerAlreadyExistsError, the listing is that one
\* name, after delete get raises ContainerDoesNotExistError and the listing
\* is empty), and goes on to its next statement only while that is so.
ContainerLifecycle ==
    (test = "test_containers" /\ driver.built) =>
        /\ step \in {"tearDown", "done"} => (outcome = "pass" <=> ~deviated)
        /\ step \in {"c_get", "c_dup", "c_list", "c_delete", "c_gone", "c_empty"}
              => ~deviated
        /\ step \in {"c_dup", "c_list", "c_delete"}
              => DOMAIN store = {loc.container_name}
        /\ step \in {"c_gone", "c_empty"} => DOMAIN store = {}

ContainerLifecycleWitness ==
    test = "test_containers" /\ step = "done" /\ outcome = "pass" /\ ~deviated

\* C5. Byte-range law: the expected content of every round of the range
\* check is a byte string: b"0" for (0,0), content[1:6] for (1,5), b"5" for
\* (5,None), b"56789" for (5,10).
ByteRangeLaw ==
    (test = "test_objects_range_downloads" /\ step = "r_file") =>
        LET value == Values(loc.content)[loc.idx]
            claimed == <<<<48>>, <<49, 50, 51, 52, 53>>, <<53>>,
                         <<53, 54, 55, 56, 57>>>>
        IN  PyEq(ExpectedContent(loc.content, value.start_bytes, value.end_bytes),
                 PyBytes(claimed[loc.idx]))

\* C6, as amended. The listing the suite asserts on for ex_prefix="tes" is
\* exactly the object whose name starts with "tes", "testblob"; the object
\* of the reversed name is the one left out.
PrefixListingKeepsMatching ==
    (test \in ObjectTests /\ step = "o_download") =>
        /\ req.prefix = <<"t", "e", "s">>
        /\ loc.listed =
              SetToSeq({n \in {loc.blob_name, Reverse(loc.blob_name)} :
                           StartsWith(n, req.prefix)})
        /\ loc.listed = <<Chars("testblob")>>
        /\ Reverse(loc.blob_name) = Chars("bolbtset")

PrefixListingWitness ==
    /\ test \in ObjectTests /\ step = "o_download"
    /\ Chars("bolbtset") \in DOMAIN store[loc.container]

\* C6, as claimed. The listing the suite asserts on for the prefix is exactly
\* the object whose name does not start with it.
PrefixListingKeepsNonMatching ==
    (test \in ObjectTests /\ step = "o_download") =>
        loc.listed =
            SetToSeq({n \in {loc.blob_name, Reverse(loc.blob_name)} :
                         ~StartsWith(n, req.prefix)})

\* C7. CLI flag derivation: one sub-command per test class; per public Config
\* field a mandatory flag without default when the field is None, else an
\* optional flag with the field's value as default and its type as type;
\* after parsing, each such field of the chosen class's Config is the value
\* given on the command line, converted to that type, or the default.
CliFlagDerivation ==
    /\ pc # "cli" =>
        /\ Cardinality(DOMAIN parser) = Cardinality(Classes)
        /\ \A c \in Classes :
            LET fields == InitialConfig[ConfigClass(c)]
                sub == parser[TestName(c)]
            IN  /\ DOMAIN sub = DOMAIN fields \ {"__module__", "__doc__"}
                /\ \A n \in DOMAIN sub :
                     IF fields[n].t = "NoneType"
                     THEN sub[n].required /\ sub[n].default.t = "NoneType"
                     ELSE /\ ~sub[n].required
                          /\ PyEq(sub[n].default, fields[n])
                          /\ sub[n].type = fields[n].t
    /\ pc = "main" =>
        LET fields == InitialConfig[ConfigClass(cls)]
            cfg == Config[ConfigClass(cls)]
        IN  \A n \in DOMAIN fields \ {"__module__", "__doc__"} :
              IF n \in DOMAIN argv.given
              THEN IF fields[n].t = "int"
                   THEN argv.given[n] = <<"8", "0">> /\ PyEq(cfg[n], PyInt(80))
                   ELSE PyEq(cfg[n], PyStr(argv.given[n]))
              ELSE fields[n].t # "NoneType" /\ PyEq(cfg[n], fields[n])

CliFlagDerivationWitness ==
    /\ pc = "main" /\ cls = "AzuriteV3StorageTest"
    /\ "port" \in DOMAIN argv.given /\ "version" \notin DOMAIN argv.given

\* C8. Cloud teardown polling: tearDownClass returns only when no group of
\* the generated name is listed; a round requests deletion of every listed
\* matching group not in state Deleting and of none that is, and of no other
\* group; a delete request that raises neither ends the loop nor leaves
\* tearDownClass; and if every group whose deletion was requested leaves the
\* listing in the end, tearDownClass returns in the end.
TearDownPollingSafe ==
    /\ (cls = "AzureStorageTest" /\ cpc = "done") =>
           \A g \in DOMAIN groups : ~StartsWith(g, rgname)
    /\ lastDelete.state # "Deleting"
    /\ \A g \in requested : StartsWith(g, rgname)
    /\ cpc = "td_sleep" =>
           \A k \in 1..Len(snapshot) :
               snapshot[k].state # "Deleting" <=> snapshot[k].name \in requested
    /\ lastDelete.raised => cpc \in {"td_visit", "td_sleep", "tearDownClass", "done"}

TearDownPolling ==
    /\ []TearDownPollingSafe
    /\ (\A g \in GroupNames : [](g \in requested => <>(g \notin DOMAIN groups)))
          => []((cls = "AzureStorageTest"
                   /\ cpc \in {"tearDownClass", "td_visit", "td_sleep"})
                   => <>(cpc = "done"))

\* tearDownClass returned after a delete request had raised
TearDownPollingWitness ==
    cls = "AzureStorageTest" /\ cpc = "done" /\ lastDelete.raised

\* C9. CDN URL check: a test_cdn_url whose setUp built a driver ends skipped
\* only in a class without delivery URL support, and passes only after the
\* upload, the fetch of the delivery URL and the comparison.
CdnUrlChecked ==
    (test = "test_cdn_url" /\ step \in {"tearDown", "done"} /\ driver.built) =>
        /\ outcome = "skip" => (OverridesCdn(cls) /\ ~HasSasSupport(cls))
        /\ outcome = "pass" => {"upload", "fetch", "compare"} \subseteq did

\* C10. Range requests reach both download paths: the file download and the
\* stream download of a round are both requested with the round's
\* start_bytes and end_bytes.
RangeReachesBothPaths ==
    (test = "test_objects_range_downloads"
        /\ step \in {"r_file", "r_stream", "tearDown"}
        /\ req.op \in {"download_object_range", "download_object_as_stream"}) =>
        LET round == IF step = "r_file" THEN loc.idx - 1 ELSE loc.idx
            value == Values(loc.content)[round]
        IN  PyEq(req.start, value.start_bytes) /\ PyEq(req.end, value.end_bytes)

===========================================================================
